---------------------------- MODULE Spec2Model ----------------------------
(***************************************************************************)
(* A model of Airlines_Analysis.py: the flight-record cleaning pipeline    *)
(* run by main() - load_and_preprocess_data, handle_missing_values,        *)
(* remove_duplicates, handle_inconsistent_entries, the two persistence     *)
(* sinks and the reporting calls.                                          *)
(*                                                                         *)
(* Representation.                                                         *)
(*  - A Python string is a sequence of one-character strings, so that      *)
(*    strip(), lower(), '<' on strings and the f-string / strftime         *)
(*    renderings are computed character by character.                      *)
(*  - A nullable cell is Null (NaN / NaT) or Some(v).                      *)
(*  - A DataFrame is a sequence of row records; the field "index" is the   *)
(*    row's pandas index label.  Column equality (duplicated,              *)
(*    drop_duplicates) ignores the label and treats Null as equal to Null, *)
(*    as pandas does.                                                      *)
(*  - Timestamps and Timedeltas are integers counting minutes (the inputs  *)
(*    carry no seconds: the time format is '%I:%M %p').                    *)
(***************************************************************************)
EXTENDS Integers, Sequences, FiniteSets, TLC

VARIABLES
    csv,                  \* rows of flights.csv, in file order
    pc,                   \* position of main() / of the stage it is inside
    columns,              \* FALSE for the column-less pd.DataFrame() fallback
    data,                 \* main's `data`
    stage_in,             \* the argument the stage being run / last run received
    duplicate_entries,    \* remove_duplicates: data[duplicates]
    dup_user_input,       \* remove_duplicates: user_input
    dup_entries_to_keep,  \* remove_duplicates: entries_to_keep
    inconsistent_df,      \* handle_inconsistent_entries: inconsistent_df
    inc_user_input,       \* handle_inconsistent_entries: user_input
    inc_entries_to_keep,  \* handle_inconsistent_entries: entries_to_keep
    inconsistent_entries, \* main's `inconsistent_entries` (the returned side-table)
    cursor,               \* position of the per-row loop (iterrows) in progress
    typed,                \* the line input() returned last, before strip().lower()
    conn,                 \* save_to_sqlite's connection: "none", "open", "closed"
    ran,                  \* the steps of main after the cleaning that have run
    raised,               \* the steps among them in which an exception was raised
    passes                \* number of handle_missing_values applications so far

vars == << csv, pc, columns, data, stage_in, duplicate_entries, dup_user_input,
           dup_entries_to_keep, inconsistent_df, inc_user_input,
           inc_entries_to_keep, inconsistent_entries, cursor, typed, conn, ran,
           raised, passes >>

---------------------------------------------------------------------------
(* Bounds of the model *)

\* longest flights.csv considered (number of data rows)
MaxRows == 3

\* number of consecutive handle_missing_values applications considered
MaxPasses == 2

---------------------------------------------------------------------------
(* Nullable cells and strings *)

Null == << >>

Some(v) == << v >>

IsNull(c) == c = Null

Val(c) == c[1]

\* code points of the characters the pipeline compares with '<'
Ord(c) ==
    CASE c = " " -> 32
      [] c = "0" -> 48 [] c = "1" -> 49 [] c = "2" -> 50 [] c = "3" -> 51
      [] c = "4" -> 52 [] c = "5" -> 53 [] c = "6" -> 54 [] c = "7" -> 55
      [] c = "8" -> 56 [] c = "9" -> 57 [] c = ":" -> 58
      [] c = "A" -> 65 [] c = "B" -> 66 [] c = "F" -> 70 [] c = "L" -> 76
      [] OTHER -> 127

\* Python's s < t on strings: lexicographic by code point
RECURSIVE StrLess(_, _)
StrLess(s, t) ==
    IF t = << >> THEN FALSE
    ELSE IF s = << >> THEN TRUE
    ELSE IF Head(s) = Head(t) THEN StrLess(Tail(s), Tail(t))
    ELSE Ord(Head(s)) < Ord(Head(t))

Digit(d) ==
    CASE d = 0 -> "0" [] d = 1 -> "1" [] d = 2 -> "2" [] d = 3 -> "3"
      [] d = 4 -> "4" [] d = 5 -> "5" [] d = 6 -> "6" [] d = 7 -> "7"
      [] d = 8 -> "8" [] d = 9 -> "9"

\* str(n) for n >= 0
RECURSIVE NatToStr(_)
NatToStr(n) ==
    IF n < 10 THEN << Digit(n) >> ELSE Append(NatToStr(n \div 10), Digit(n % 10))

RECURSIVE ZeroPad(_, _)
ZeroPad(s, width) == IF Len(s) >= width THEN s ELSE ZeroPad(<< "0" >> \o s, width)

\* format(n, '02'): sign first, then zeros up to a total width of two
Format02(n) ==
    IF n < 0 THEN << "-" >> \o ZeroPad(NatToStr(-n), 1)
    ELSE ZeroPad(NatToStr(n), 2)

---------------------------------------------------------------------------
(* load_and_preprocess_data *)

MinutesPerDay == 24 * 60

\* pd.Timestamp('1970-01-01') and the date strptime gives a time-only string,
\* 1900-01-01, in minutes from the epoch
Epoch1970 == 0

Epoch1900 == (0 - 25567) * MinutesPerDay

\* pd.to_datetime(date, errors='coerce'): midnight of the day, or NaT
ParseDate(cell) == IF IsNull(cell) THEN Null ELSE Some(Val(cell) * MinutesPerDay)

\* pd.to_datetime(time, format='%I:%M %p', errors='coerce'): the wall-clock
\* time on 1900-01-01, or NaT.  %I is the 12-hour clock: 12 AM is 00, 12 PM is 12.
ParseTime(cell) ==
    IF IsNull(cell) THEN Null
    ELSE LET t == Val(cell)
             hour == (t.I % 12) + (IF t.p = "PM" THEN 12 ELSE 0)
         IN  Some(Epoch1900 + hour * 60 + t.M)

\* (ArrivalDate + (ArrivalTime - 1970-01-01)) - (DepartureDate + (DepartureTime - 1970-01-01));
\* NaT as soon as one operand is NaT
DurationOf(dd, dt, ad, at) ==
    IF IsNull(dd) \/ IsNull(dt) \/ IsNull(ad) \/ IsNull(at) THEN Null
    ELSE Some((Val(ad) + (Val(at) - Epoch1970)) - (Val(dd) + (Val(dt) - Epoch1970)))

\* Timedelta.components: days = floor(td / 1 day), hours and minutes of the
\* non-negative remainder
ComponentsHours(td) == (td % MinutesPerDay) \div 60

ComponentsMinutes(td) == (td % MinutesPerDay) % 60

\* f"{x.components.hours:02}:{x.components.minutes:02}" if pd.notnull(x) else '00:00'
FormatDuration(td) ==
    IF IsNull(td) THEN << "0", "0", ":", "0", "0" >>
    ELSE Format02(ComponentsHours(Val(td))) \o << ":" >> \o Format02(ComponentsMinutes(Val(td)))

\* Series.dt.strftime('%H:%M'): NaN for NaT
Strftime(ts) ==
    IF IsNull(ts) THEN Null
    ELSE LET tod == Val(ts) % MinutesPerDay
         IN  Some(Format02(tod \div 60) \o << ":" >> \o Format02(tod % 60))

\* one row of the frame load_and_preprocess_data returns; label is the row's
\* position in the file (read_csv's RangeIndex)
PreprocessRow(r, label) ==
    LET dd == ParseDate(r.DepartureDate)
        ad == ParseDate(r.ArrivalDate)
        dt == ParseTime(r.DepartureTime)
        at == ParseTime(r.ArrivalTime)
        td == DurationOf(dd, dt, ad, at)
    IN  [ index                 |-> label,
          FlightNumber          |-> r.FlightNumber,
          Airline               |-> r.Airline,
          DepartureDate         |-> dd,
          DepartureTime         |-> Strftime(dt),
          ArrivalDate           |-> ad,
          ArrivalTime           |-> Strftime(at),
          DelayMinutes          |-> r.DelayMinutes,
          FlightDuration        |-> FormatDuration(td),
          FlightDurationMinutes |-> td ]

\* s, sorted by FlightNumber, with row r put behind the rows whose
\* FlightNumber is not larger
RECURSIVE InsertRow(_, _)
InsertRow(s, r) ==
    IF s = << >> THEN << r >>
    ELSE IF StrLess(r.FlightNumber, Head(s).FlightNumber) THEN << r >> \o s
    ELSE << Head(s) >> \o InsertRow(Tail(s), r)

RECURSIVE SortPrefix(_, _)
SortPrefix(t, n) == IF n = 0 THEN << >> ELSE InsertRow(SortPrefix(t, n - 1), t[n])

\* t.sort_values(by='FlightNumber'): kind defaults to quicksort, which numpy
\* carries out by insertion on arrays of at most 16 elements, and every frame
\* of the model is as short: rows with equal FlightNumber keep their order
SortValuesByFlightNumber(t) == SortPrefix(t, Len(t))

\* the frame before the sort: read_csv labels and the derived columns
Preprocessed(file) == [k \in 1..Len(file) |-> PreprocessRow(file[k], k - 1)]

load_and_preprocess_data(file) == SortValuesByFlightNumber(Preprocessed(file))

---------------------------------------------------------------------------
(* handle_missing_values *)

\* s with v inserted before the first element larger than v
RECURSIVE InsertSorted(_, _)
InsertSorted(s, v) ==
    IF s = << >> THEN << v >>
    ELSE IF v <= Head(s) THEN << v >> \o s
    ELSE << Head(s) >> \o InsertSorted(Tail(s), v)

RECURSIVE SortValues(_)
SortValues(s) == IF s = << >> THEN << >> ELSE InsertSorted(SortValues(Tail(s)), Head(s))

\* the non-null DelayMinutes of the rows of one airline, in row order
GroupDelays(t, airline) ==
    LET present == SelectSeq(t, LAMBDA r : r.Airline = airline /\ ~ IsNull(r.DelayMinutes))
    IN  [k \in 1..Len(present) |-> Val(present[k].DelayMinutes)]

\* Median with the upper middle value taken for an even count, not the mean
MedianUpper(vals) ==
    LET s == SortValues(vals)
        n == Len(s)
    IN  IF n = 0 THEN Null ELSE Some(s[(n \div 2) + 1])

\* Series.median(): NaN for no value, the middle value, or the mean of the two
\* middle values (the delays the model draws are even numbers, so the mean of
\* two of them is a whole number and \div loses nothing)
Median(vals) ==
    LET s == SortValues(vals)
        n == Len(s)
    IN  IF n = 0 THEN Null
        ELSE IF n % 2 = 1 THEN Some(s[(n + 1) \div 2])
        ELSE Some((s[n \div 2] + s[(n \div 2) + 1]) \div 2)

\* data.groupby('Airline')['DelayMinutes'].transform(lambda x: x.fillna(x.median()))
handle_missing_values(t) ==
    [k \in 1..Len(t) |->
        IF IsNull(t[k].DelayMinutes)
        THEN [t[k] EXCEPT !.DelayMinutes = Median(GroupDelays(t, t[k].Airline))]
        ELSE t[k]]

---------------------------------------------------------------------------
(* DataFrame operations shared by the two curation stages *)

\* the rows at the positions in keep, in frame order
RECURSIVE Pick(_, _, _)
Pick(t, keep, k) ==
    IF k > Len(t) THEN << >>
    ELSE (IF k \in keep THEN << t[k] >> ELSE << >>) \o Pick(t, keep, k + 1)

\* a row's column values, without its index label
Cols(r) == [r EXCEPT !.index = 0]

\* DataFrame.drop_duplicates(): of rows equal in every column the first stays
drop_duplicates(t) ==
    Pick(t, { k \in 1..Len(t) : ~ \E j \in 1..(k - 1) : Cols(t[j]) = Cols(t[k]) }, 1)

\* data.loc[labels]: for each label in turn, the rows carrying it
RECURSIVE Loc(_, _)
Loc(t, labels) ==
    IF labels = << >> THEN << >>
    ELSE SelectSeq(t, LAMBDA r : r.index = Head(labels)) \o Loc(t, Tail(labels))

\* DataFrame.reset_index(drop=True)
reset_index(t) == [k \in 1..Len(t) |-> [t[k] EXCEPT !.index = k - 1]]

---------------------------------------------------------------------------
(* remove_duplicates *)

\* DuplicateKey with DepartureTime left out of the subset
DuplicateKeyWithoutTime(r) == << r.FlightNumber, r.DepartureDate >>

DuplicateKey(r) == << r.FlightNumber, r.DepartureDate, r.DepartureTime >>

\* data.duplicated(subset=[...], keep=False), as the set of positions marked
Duplicated(t) ==
    { k \in 1..Len(t) :
        \E j \in 1..Len(t) : j # k /\ DuplicateKey(t[j]) = DuplicateKey(t[k]) }

\* data[duplicates]
DuplicateEntries(t) == Pick(t, Duplicated(t), 1)

\* DataCleaned without the drop_duplicates() that closes line 77
DataCleanedKeepingCopies(t, entries_to_keep) ==
    Pick(t, (1..Len(t)) \ { k \in 1..Len(t) :
                \E j \in 1..Len(t) : j # k /\ DuplicateKey(t[j]) = DuplicateKey(t[k]) }, 1)
        \o Loc(t, entries_to_keep)

\* lines 76-77: drop_duplicates(subset, keep=False), then the concat with the
\* kept rows and the second drop_duplicates()
DataCleaned(t, entries_to_keep) ==
    drop_duplicates(Pick(t, (1..Len(t)) \ Duplicated(t), 1) \o Loc(t, entries_to_keep))

---------------------------------------------------------------------------
(* handle_inconsistent_entries *)

\* the reasonable-duration threshold of the test at line 95
MaxDuration == 480

\* arrival_time < departure_time between a str and the float NaN of a time
\* that did not parse raises TypeError; NaN < NaN is False
ComparisonRaises(r) == IsNull(r.ArrivalTime) # IsNull(r.DepartureTime)

\* arrival_time < departure_time or flight_duration > 480
IsInconsistent(r) ==
    \/ /\ ~ IsNull(r.ArrivalTime)
       /\ ~ IsNull(r.DepartureTime)
       /\ StrLess(Val(r.ArrivalTime), Val(r.DepartureTime))
    \/ /\ ~ IsNull(r.FlightDurationMinutes)
       /\ Val(r.FlightDurationMinutes) > MaxDuration

\* the loop of lines 90-98 from row k on: "raised" when a comparison raised,
\* else the rows appended to inconsistent_entries
RECURSIVE ScanRows(_, _, _, _)
ScanRows(t, k, entries, added_indices) ==
    IF k > Len(t) THEN [raised |-> FALSE, entries |-> entries]
    ELSE IF ComparisonRaises(t[k]) THEN [raised |-> TRUE, entries |-> entries]
    ELSE IF IsInconsistent(t[k]) /\ t[k].index \notin added_indices
         THEN ScanRows(t, k + 1, Append(entries, t[k]), added_indices \cup {t[k].index})
    ELSE ScanRows(t, k + 1, entries, added_indices)

FindInconsistent(t) == ScanRows(t, 1, << >>, {})

\* CleanedData without the drop_duplicates() of line 124
CleanedDataKeepingCopies(t, flagged, entries_to_keep) ==
    LET added_indices == { flagged[k].index : k \in 1..Len(flagged) }
    IN  reset_index(reset_index(Pick(t, { k \in 1..Len(t) : t[k].index \notin added_indices }, 1))
                        \o Loc(t, entries_to_keep))

\* lines 122-124
CleanedData(t, flagged, entries_to_keep) ==
    LET added_indices == { flagged[k].index : k \in 1..Len(flagged) }
        cleaned_data  == reset_index(Pick(t, { k \in 1..Len(t) : t[k].index \notin added_indices }, 1))
        retained      == Loc(t, entries_to_keep)
    IN  reset_index(drop_duplicates(cleaned_data \o retained))

---------------------------------------------------------------------------
(* input(...).strip().lower() *)

IsSpace(c) == c \in { " ", "\t" }

RECURSIVE LStrip(_)
LStrip(s) == IF s # << >> /\ IsSpace(Head(s)) THEN LStrip(Tail(s)) ELSE s

RECURSIVE RStrip(_)
RStrip(s) ==
    IF s # << >> /\ IsSpace(s[Len(s)]) THEN RStrip(SubSeq(s, 1, Len(s) - 1)) ELSE s

Strip(s) == RStrip(LStrip(s))

LowerChar(c) ==
    CASE c = "Y" -> "y" [] c = "E" -> "e" [] c = "S" -> "s"
      [] c = "N" -> "n" [] c = "O" -> "o"
      [] OTHER -> c

Lower(s) == [k \in 1..Len(s) |-> LowerChar(s[k])]

\* Answer without strip()
AnswerUnstripped(line) == Lower(line)

Answer(line) == Lower(Strip(line))

Yes == << "y", "e", "s" >>

No == << "n", "o" >>

---------------------------------------------------------------------------
(* The inputs the model draws *)

FL1 == << "F", "L", "1" >>

FL2 == << "F", "L", "2" >>

\* 2024-01-01 and 2024-01-02, as days from the epoch
Jan1 == Some(19723)

Jan2 == Some(19724)

Clock(hour12, minute, meridiem) == Some([I |-> hour12, M |-> minute, p |-> meridiem])

CsvRow(fn, airline, dd, dt, ad, at, delay) ==
    [ FlightNumber |-> fn, Airline |-> airline, DepartureDate |-> dd,
      DepartureTime |-> dt, ArrivalDate |-> ad, ArrivalTime |-> at,
      DelayMinutes |-> delay ]

\* the rows a flights.csv of the model is made of: a plain flight; a second
\* booking of it that lasts 500 minutes and has no delay; an arrival at 13:30
\* after a departure at 14:00; an arrival the day before the departure; a
\* flight of more than a day; an arrival time that does not parse; a row
\* neither of whose times parses
CsvRows ==
    { CsvRow(FL1, "A", Jan1, Clock(9, 0, "AM"), Jan1, Clock(1, 30, "PM"), Some(10)),
      CsvRow(FL1, "A", Jan1, Clock(9, 0, "AM"), Jan1, Clock(5, 20, "PM"), Null),
      CsvRow(FL2, "A", Jan1, Clock(2, 0, "PM"), Jan1, Clock(1, 30, "PM"), Some(10)),
      CsvRow(FL2, "A", Jan2, Clock(9, 0, "AM"), Jan1, Clock(1, 30, "PM"), Some(10)),
      CsvRow(FL1, "A", Jan1, Clock(9, 0, "AM"), Jan2, Clock(1, 30, "PM"), Some(30)),
      CsvRow(FL2, "A", Jan1, Clock(9, 0, "AM"), Jan1, Null, Some(10)),
      CsvRow(FL2, "B", Jan1, Null, Jan1, Null, Null) }

\* the rows of the files handle_missing_values is applied to repeatedly: two
\* airlines, delays missing or 10, 30, 50 minutes
DelayRows ==
    { CsvRow(FL1, airline, Jan1, Clock(9, 0, "AM"), Jan1, Clock(1, 30, "PM"), delay) :
        airline \in { "A", "B" }, delay \in { Null, Some(10), Some(30), Some(50) } }

Files(rows) == UNION { [1..n -> rows] : n \in 0..MaxRows }

\* the lines an operator types at a prompt
Lines ==
    { << "y", "e", "s" >>, << " ", "Y", "e", "s" >>, << "N", "O", " " >>, << "y" >> }

---------------------------------------------------------------------------
(* main *)

ReportSteps ==
    << "print_data", "plot_delay_histogram", "plot_delay_by_airline",
       "calculate_average_delay_per_airline", "analyze_delay_by_departure_time",
       "plot_delay_distribution_by_airline", "insights" >>

InitWith(files) ==
    /\ csv \in files
    /\ pc = "load"
    /\ columns = TRUE
    /\ data = << >>
    /\ stage_in = << >>
    /\ duplicate_entries = << >>
    /\ dup_user_input = << >>
    /\ dup_entries_to_keep = << >>
    /\ inconsistent_df = << >>
    /\ inc_user_input = << >>
    /\ inc_entries_to_keep = << >>
    /\ inconsistent_entries = << >>
    /\ cursor = 0
    /\ typed = << >>
    /\ conn = "none"
    /\ ran = << >>
    /\ raised = {}
    /\ passes = 0

Init == InitWith(Files(CsvRows))

\* line 232: the sorted, preprocessed frame, or pd.DataFrame() when reading fails
Load ==
    /\ pc = "load"
    /\ \E ok \in BOOLEAN :
          IF ok
          THEN /\ data' = load_and_preprocess_data(csv)
               /\ columns' = TRUE
          ELSE /\ data' = << >>
               /\ columns' = FALSE
    /\ pc' = "handle_missing_values"
    /\ UNCHANGED << csv, stage_in, duplicate_entries, dup_user_input,
                    dup_entries_to_keep, inconsistent_df, inc_user_input,
                    inc_entries_to_keep, inconsistent_entries, cursor, typed,
                    conn, ran, raised, passes >>

\* line 235; on the column-less frame groupby raises KeyError and data comes back
HandleMissingValues ==
    /\ pc = "handle_missing_values"
    /\ stage_in' = data
    /\ data' = IF columns THEN handle_missing_values(data) ELSE data
    /\ passes' = passes + 1
    /\ pc' = "remove_duplicates"
    /\ UNCHANGED << csv, columns, duplicate_entries, dup_user_input,
                    dup_entries_to_keep, inconsistent_df, inc_user_input,
                    inc_entries_to_keep, inconsistent_entries, cursor, typed,
                    conn, ran, raised >>

\* handle_missing_values applied once more to its own result
HandleMissingValuesAgain ==
    /\ pc = "remove_duplicates"
    /\ passes < MaxPasses
    /\ data' = IF columns THEN handle_missing_values(data) ELSE data
    /\ passes' = passes + 1
    /\ UNCHANGED << csv, pc, columns, stage_in, duplicate_entries, dup_user_input,
                    dup_entries_to_keep, inconsistent_df, inc_user_input,
                    inc_entries_to_keep, inconsistent_entries, cursor, typed,
                    conn, ran, raised >>

\* line 238, up to the first prompt (lines 53-57) or the return of line 80 / 83
RemoveDuplicates ==
    /\ pc = "remove_duplicates"
    /\ stage_in' = data
    /\ IF columns /\ DuplicateEntries(data) # << >>
       THEN /\ duplicate_entries' = DuplicateEntries(data)
            /\ pc' = "dup_confirm"
       ELSE /\ duplicate_entries' = << >>
            /\ pc' = "handle_inconsistent_entries"
    /\ UNCHANGED << csv, columns, data, dup_user_input, dup_entries_to_keep,
                    inconsistent_df, inc_user_input, inc_entries_to_keep,
                    inconsistent_entries, cursor, typed, conn, ran, raised,
                    passes >>

\* lines 59-68: one answer to "Do you want to remove duplicates? (yes/no): "
DupConfirm ==
    /\ pc = "dup_confirm"
    /\ \E line \in Lines :
          /\ typed' = line
          /\ dup_user_input' = Answer(line)
          /\ IF Answer(line) \notin { Yes, No } THEN pc' = pc /\ cursor' = cursor
             ELSE IF Answer(line) = Yes THEN pc' = "dup_keep" /\ cursor' = 1
             ELSE pc' = "handle_inconsistent_entries" /\ cursor' = cursor
    /\ dup_entries_to_keep' = << >>
    /\ UNCHANGED << csv, columns, data, stage_in, duplicate_entries,
                    inconsistent_df, inc_user_input, inc_entries_to_keep,
                    inconsistent_entries, conn, ran, raised, passes >>

\* lines 70-78: one answer to "Do you want to keep this entry? (yes/no): ",
\* and after the last row the return of data_cleaned
DupKeep ==
    /\ pc = "dup_keep"
    /\ \E line \in Lines :
          LET entries_to_keep ==
                  IF Answer(line) = Yes
                  THEN Append(dup_entries_to_keep, duplicate_entries[cursor].index)
                  ELSE dup_entries_to_keep
          IN  /\ typed' = line
              /\ dup_entries_to_keep' = entries_to_keep
              /\ IF cursor < Len(duplicate_entries)
                 THEN /\ cursor' = cursor + 1
                      /\ UNCHANGED << pc, data >>
                 ELSE /\ cursor' = 0
                      /\ data' = DataCleaned(data, entries_to_keep)
                      /\ pc' = "handle_inconsistent_entries"
    /\ UNCHANGED << csv, columns, stage_in, duplicate_entries, dup_user_input,
                    inconsistent_df, inc_user_input, inc_entries_to_keep,
                    inconsistent_entries, conn, ran, raised, passes >>

\* line 241, up to the first prompt (lines 87-104) or the return of line 128 / 131.
\* remove_duplicates has returned: of its frame only the operator's decisions
\* (dup_user_input, dup_entries_to_keep) are kept, as a record of them.
HandleInconsistentEntries ==
    /\ pc = "handle_inconsistent_entries"
    /\ stage_in' = data
    /\ LET scan == FindInconsistent(data)
       IN  IF scan.raised
           THEN /\ inconsistent_df' = << >>
                /\ inconsistent_entries' = << >>
                /\ pc' = "sort_values"
           ELSE /\ inconsistent_df' = scan.entries
                /\ IF scan.entries = << >>
                   THEN /\ inconsistent_entries' = << >>
                        /\ pc' = "sort_values"
                   ELSE /\ inconsistent_entries' = inconsistent_entries
                        /\ pc' = "inc_confirm"
    /\ duplicate_entries' = << >>
    /\ typed' = << >>
    /\ UNCHANGED << csv, columns, data, dup_user_input, dup_entries_to_keep,
                    inc_user_input, inc_entries_to_keep, cursor, conn, ran,
                    raised, passes >>

\* lines 106-114: one answer to "Do you want to remove inconsistent entries? (yes/no): "
IncConfirm ==
    /\ pc = "inc_confirm"
    /\ \E line \in Lines :
          /\ typed' = line
          /\ inc_user_input' = Answer(line)
          /\ IF Answer(line) \notin { Yes, No }
             THEN pc' = pc /\ cursor' = cursor /\ UNCHANGED inconsistent_entries
             ELSE IF Answer(line) = Yes
             THEN pc' = "inc_keep" /\ cursor' = 1 /\ UNCHANGED inconsistent_entries
             ELSE /\ pc' = "sort_values"
                  /\ cursor' = cursor
                  /\ inconsistent_entries' = inconsistent_df
    /\ inc_entries_to_keep' = << >>
    /\ UNCHANGED << csv, columns, data, stage_in, duplicate_entries,
                    dup_user_input, dup_entries_to_keep, inconsistent_df, conn,
                    ran, raised, passes >>

\* lines 115-126: one answer to "Do you want to keep this entry? (yes/no): ",
\* and after the last row the return of cleaned_data and inconsistent_df
IncKeep ==
    /\ pc = "inc_keep"
    /\ \E line \in Lines :
          LET entries_to_keep ==
                  IF Answer(line) = Yes
                  THEN Append(inc_entries_to_keep, inconsistent_df[cursor].index)
                  ELSE inc_entries_to_keep
          IN  /\ typed' = line
              /\ inc_entries_to_keep' = entries_to_keep
              /\ IF cursor < Len(inconsistent_df)
                 THEN /\ cursor' = cursor + 1
                      /\ UNCHANGED << pc, data, inconsistent_entries >>
                 ELSE /\ cursor' = 0
                      /\ data' = CleanedData(data, inconsistent_df, entries_to_keep)
                      /\ inconsistent_entries' = inconsistent_df
                      /\ pc' = "sort_values"
    /\ UNCHANGED << csv, columns, stage_in, duplicate_entries, dup_user_input,
                    dup_entries_to_keep, inconsistent_df, inc_user_input, conn,
                    ran, raised, passes >>

\* line 242; on the column-less frame sort_values raises KeyError, which only
\* the handler of line 276 catches
SortValuesStep ==
    /\ pc = "sort_values"
    /\ IF columns
       THEN /\ data' = SortValuesByFlightNumber(data)
            /\ pc' = "to_csv"
            /\ raised' = raised
       ELSE /\ data' = data
            /\ pc' = "main_except"
            /\ raised' = raised \cup { "sort_values" }
    /\ typed' = << >>
    /\ UNCHANGED << csv, columns, stage_in, duplicate_entries, dup_user_input,
                    dup_entries_to_keep, inconsistent_df, inc_user_input,
                    inc_entries_to_keep, inconsistent_entries, cursor, conn,
                    ran, passes >>

\* line 245: the write of transformed_dataset.csv succeeds, or raises into the
\* handler of line 276.  The record of the stages' frames and of the
\* operator's decisions ends here: main holds data and inconsistent_entries only.
ToCsv ==
    /\ pc = "to_csv"
    /\ \E ok \in BOOLEAN :
          IF ok
          THEN /\ ran' = Append(ran, "to_csv")
               /\ raised' = raised
               /\ pc' = "save_to_sqlite"
          ELSE /\ ran' = ran
               /\ raised' = raised \cup { "to_csv" }
               /\ pc' = "main_except"
    /\ stage_in' = << >>
    /\ duplicate_entries' = << >>
    /\ dup_user_input' = << >>
    /\ dup_entries_to_keep' = << >>
    /\ inconsistent_df' = << >>
    /\ inc_user_input' = << >>
    /\ inc_entries_to_keep' = << >>
    /\ UNCHANGED << csv, columns, data, inconsistent_entries, cursor, typed,
                    conn, passes >>

\* lines 220-227: connect, to_sql, close, with one handler around the three,
\* so that close is not called when to_sql raises: the connection is then
\* closed only if the interpreter finalizes the unreferenced object (collected)
save_to_sqlite(outcome, collected) ==
    CASE outcome = "connect_raises" -> [conn |-> "none", raised |-> TRUE]
      [] outcome = "to_sql_raises"  ->
            [conn |-> IF collected THEN "closed" ELSE "open", raised |-> TRUE]
      [] outcome = "written"        -> [conn |-> "closed", raised |-> FALSE]

\* line 248
SaveToSqlite ==
    /\ pc = "save_to_sqlite"
    /\ \E outcome \in { "connect_raises", "to_sql_raises", "written" }, collected \in BOOLEAN :
          /\ conn' = save_to_sqlite(outcome, collected).conn
          /\ raised' = IF save_to_sqlite(outcome, collected).raised
                       THEN raised \cup { "save_to_sqlite" } ELSE raised
    /\ ran' = Append(ran, "save_to_sqlite")
    /\ pc' = "report"
    /\ UNCHANGED << csv, columns, data, stage_in, duplicate_entries,
                    dup_user_input, dup_entries_to_keep, inconsistent_df,
                    inc_user_input, inc_entries_to_keep, inconsistent_entries,
                    cursor, typed, passes >>

\* lines 250-274.  The plotting and aggregation functions catch what they
\* raise (lines 150, 164, 173, 200, 217), so every call is reached; the closing
\* block (lines 267-274) indexes the aggregates and can raise into the handler
\* of line 276.
Report ==
    /\ pc = "report"
    /\ ran' = ran \o ReportSteps
    /\ \E ok \in BOOLEAN :
          IF ok THEN pc' = "done" /\ raised' = raised
          ELSE pc' = "main_except" /\ raised' = raised \cup { "insights" }
    /\ UNCHANGED << csv, columns, data, stage_in, duplicate_entries,
                    dup_user_input, dup_entries_to_keep, inconsistent_df,
                    inc_user_input, inc_entries_to_keep, inconsistent_entries,
                    cursor, typed, conn, passes >>

Next ==
    \/ Load
    \/ HandleMissingValues
    \/ RemoveDuplicates
    \/ DupConfirm
    \/ DupKeep
    \/ HandleInconsistentEntries
    \/ IncConfirm
    \/ IncKeep
    \/ SortValuesStep
    \/ ToCsv
    \/ SaveToSqlite
    \/ Report

Spec == Init /\ [][Next]_vars

\* handle_missing_values applied MaxPasses times to a loaded file
InitDelays == InitWith(Files(DelayRows))

NextDelays == Load \/ HandleMissingValues \/ HandleMissingValuesAgain

SpecDelays == InitDelays /\ [][NextDelays]_vars

---------------------------------------------------------------------------
(* Properties *)

Range(s) == { s[k] : k \in 1..Len(s) }

\* number of rows of t whose columns are v
Count(t, v) == Cardinality({ k \in 1..Len(t) : Cols(t[k]) = v })

SameKey(r1, r2) ==
    /\ r1.FlightNumber = r2.FlightNumber
    /\ r1.DepartureDate = r2.DepartureDate
    /\ r1.DepartureTime = r2.DepartureTime

\* the positions of t whose row shares its key with a row at another position
SharesKey(t) ==
    { k \in 1..Len(t) : \E j \in 1..Len(t) : j # k /\ SameKey(t[j], t[k]) }

\* a row the inconsistency test is meant to flag: arrival time string below the
\* departure time string, or a duration above 480 minutes
Flagged(r) ==
    \/ /\ r.ArrivalTime # Null
       /\ r.DepartureTime # Null
       /\ StrLess(Val(r.ArrivalTime), Val(r.DepartureTime))
    \/ /\ r.FlightDurationMinutes # Null
       /\ Val(r.FlightDurationMinutes) > 480

\* the frame remove_duplicates received in this run of main
DupInput == IF columns THEN handle_missing_values(load_and_preprocess_data(csv)) ELSE << >>

\* the columns of the rows the operator answered 'yes' for, per stage
DupKeptCols == { Cols(r) : r \in { x \in Range(DupInput) : x.index \in Range(dup_entries_to_keep) } }

IncKeptCols == { Cols(r) : r \in { x \in Range(stage_in) : x.index \in Range(inc_entries_to_keep) } }

C2_KeptRowsAsClaimed ==
    (pc = "handle_inconsistent_entries" /\ columns /\ dup_user_input = Yes) =>
        /\ Range(duplicate_entries) = { stage_in[k] : k \in SharesKey(stage_in) }
        /\ \A k \in 1..Len(stage_in) :
              (stage_in[k] \in Range(data)) <=>
                  \/ k \notin SharesKey(stage_in)
                  \/ stage_in[k].index \in Range(dup_entries_to_keep)

\* the duplicate row at position k was answered 'yes' and no row before it,
\* equal to it in every column, was
FirstKept(t, keep, k) ==
    /\ t[k].index \in Range(keep)
    /\ ~ \E j \in 1..(k - 1) : t[j].index \in Range(keep) /\ Cols(t[j]) = Cols(t[k])

\* C2 (amended): after 'yes' to the removal question the duplicate set is the
\* rows sharing a key with another row, and the returned table holds, each
\* once, every non-duplicate row and every duplicate row answered 'yes' except
\* those equal in every column to an earlier row answered 'yes', and no other row.
C2_KeptRows ==
    (pc = "handle_inconsistent_entries" /\ columns /\ dup_user_input = Yes) =>
        /\ Range(duplicate_entries) = { stage_in[k] : k \in SharesKey(stage_in) }
        /\ Cardinality(Range(data)) = Len(data)
        /\ Range(data) \subseteq Range(stage_in)
        /\ \A k \in 1..Len(stage_in) :
              (stage_in[k] \in Range(data)) <=>
                  \/ k \notin SharesKey(stage_in)
                  \/ FirstKept(stage_in, dup_entries_to_keep, k)

\* two rows equal in every column were both answered 'yes' and one came back
C2_Witness ==
    /\ pc = "handle_inconsistent_entries"
    /\ dup_user_input = Yes
    /\ Len(stage_in) = 2
    /\ Cols(stage_in[1]) = Cols(stage_in[2])
    /\ Len(dup_entries_to_keep) = 2
    /\ Len(data) = 1

\* C3: remove_duplicates returns its argument as it is (rows, multiplicity,
\* order, labels), with no per-row question asked, when no two rows share a key
\* and when the operator answers 'no' to the removal question.
C3_ReturnsInputUnchanged ==
    (pc = "handle_inconsistent_entries" /\ columns
        /\ (SharesKey(stage_in) = {} \/ dup_user_input = No)) =>
        /\ data = stage_in
        /\ dup_entries_to_keep = << >>

\* duplicates were shown and the operator declined the removal
C3_Witness ==
    /\ pc = "handle_inconsistent_entries"
    /\ SharesKey(stage_in) # {}
    /\ dup_user_input = No
    /\ Len(stage_in) = 3
    /\ data = stage_in

\* C4: the side-table handle_inconsistent_entries returns holds, each once,
\* exactly the rows of its argument whose arrival time string is below the
\* departure time string or whose duration exceeds 480 minutes, whatever the
\* operator answers.
C4_SideTableIsFlaggedSet ==
    (pc = "sort_values" /\ columns) =>
        /\ Range(inconsistent_entries) = { r \in Range(stage_in) : Flagged(r) }
        /\ Cardinality(Range(inconsistent_entries)) = Len(inconsistent_entries)

\* C5: when the write of the flat file or save_to_sqlite raised, every later
\* step of main has run by the time main ends.
C5_PersistenceFailureDoesNotHalt ==
    (pc \in { "done", "main_except" }
        /\ raised \cap { "to_csv", "save_to_sqlite" } # {}) =>
        /\ "save_to_sqlite" \in Range(ran)
        /\ Range(ReportSteps) \subseteq Range(ran)

\* the lines whose trimmed, lower-cased form is 'yes', and those for 'no'
SaysYes(line) == line \in { << "y", "e", "s" >>, << " ", "Y", "e", "s" >> }

SaysNo(line) == line \in { << "N", "O", " " >> }

AtConfirm == pc \in { "dup_confirm", "inc_confirm" }

AtKeep == pc \in { "dup_keep", "inc_keep" }

\* C6 as claimed: no prompt, batch or per-row, is passed until the answer is
\* 'yes' or 'no' in any case and with surrounding blanks; an unrecognized
\* answer changes nothing.
C6_EveryPromptReprompts ==
    [][ ((AtConfirm \/ AtKeep) /\ ~ SaysYes(typed') /\ ~ SaysNo(typed')) =>
            /\ pc' = pc
            /\ cursor' = cursor
            /\ data' = data ]_vars

\* C6 (amended): the removal question of either stage takes 'yes' and 'no' in
\* any case and with surrounding blanks, and is asked again, with nothing else
\* changed, after any other answer.  A per-row keep question is asked once: the
\* row is kept exactly when the answer is such a 'yes', and after any answer
\* the loop moves to the next row or the stage returns.
C6_PromptProtocol ==
    [][ /\ (AtConfirm /\ ~ SaysYes(typed') /\ ~ SaysNo(typed')) =>
              /\ pc' = pc
              /\ cursor' = cursor
              /\ data' = data
        /\ (AtConfirm /\ SaysYes(typed')) => (pc' \in { "dup_keep", "inc_keep" } /\ cursor' = 1)
        /\ (AtConfirm /\ SaysNo(typed')) => (pc' \notin { pc, "dup_keep", "inc_keep" } /\ data' = data)
        /\ (pc = "dup_keep") =>
              /\ pc' # pc \/ cursor' = cursor + 1
              /\ dup_entries_to_keep' =
                    IF SaysYes(typed')
                    THEN Append(dup_entries_to_keep, duplicate_entries[cursor].index)
                    ELSE dup_entries_to_keep
        /\ (pc = "inc_keep") =>
              /\ pc' # pc \/ cursor' = cursor + 1
              /\ inc_entries_to_keep' =
                    IF SaysYes(typed')
                    THEN Append(inc_entries_to_keep, inconsistent_df[cursor].index)
                    ELSE inc_entries_to_keep ]_vars

\* 'y' to the first per-row question was taken as a discard, and ' Yes' to the
\* second as a keep
C6_Witness ==
    /\ pc = "dup_keep"
    /\ cursor = 3
    /\ typed = << " ", "Y", "e", "s" >>
    /\ dup_entries_to_keep = << duplicate_entries[2].index >>

\* C7: once save_to_sqlite has returned, the connection it opened is closed.
C7_ConnectionReleased ==
    ("save_to_sqlite" \in Range(ran)) => (conn # "open")

\* zero-padded HH:MM of a number of minutes: HH = minutes div 60, MM = minutes mod 60
HHMM(minutes) == Format02(minutes \div 60) \o << ":" >> \o Format02(minutes % 60)

\* C8: for every loaded row whose dates and times all parsed, the FlightDuration
\* string is the zero-padded HH:MM of FlightDuration (Minutes).
C8_DurationStringIsHHMM ==
    \A k \in 1..Len(data) :
        (data[k].FlightDurationMinutes # Null) =>
            data[k].FlightDuration = HHMM(Val(data[k].FlightDurationMinutes))

\* the delays present (non-null) among the rows of t of the airline of row k,
\* as the set of their positions
Present(t, k) ==
    { j \in 1..Len(t) : t[j].Airline = t[k].Airline /\ t[j].DelayMinutes # Null }

\* m is the median of the delays at the positions in P: the mean of the lower
\* and the upper middle value, each found by counting
IsMedian(t, P, m) ==
    \E lo, up \in P :
        LET d(j) == Val(t[j].DelayMinutes)
            n == Cardinality(P)
        IN  /\ 2 * Cardinality({ j \in P : d(j) <= d(lo) }) >= n
            /\ 2 * Cardinality({ j \in P : d(j) < d(lo) }) < n
            /\ 2 * Cardinality({ j \in P : d(j) >= d(up) }) >= n
            /\ 2 * Cardinality({ j \in P : d(j) > d(up) }) < n
            /\ 2 * m = d(lo) + d(up)

\* out is t with each null delay replaced by the median of the delays present
\* for the same airline, nulls left where the airline has none, all else as in t
MedianFilled(t, out) ==
    /\ Len(out) = Len(t)
    /\ \A k \in 1..Len(t) :
          /\ [out[k] EXCEPT !.DelayMinutes = Null] = [t[k] EXCEPT !.DelayMinutes = Null]
          /\ IF t[k].DelayMinutes # Null THEN out[k].DelayMinutes = t[k].DelayMinutes
             ELSE IF Present(t, k) = {} THEN out[k].DelayMinutes = Null
             ELSE /\ out[k].DelayMinutes # Null
                  /\ IsMedian(t, Present(t, k), Val(out[k].DelayMinutes))

\* C9: every application of handle_missing_values fills each null delay with
\* the median of the non-null delays of the same airline, leaves the other
\* delays and the nulls of an all-null airline as they are, and an application
\* to the result of an earlier one changes nothing.
C9_Idempotent ==
    [][ (passes' # passes /\ columns) =>
            /\ MedianFilled(data, data')
            /\ (passes >= 1) => (data' = data) ]_vars

\* airline A with delays 10, null, 30 after two applications: 10, 20, 30
C9_Witness ==
    /\ passes = 2
    /\ Len(csv) = 3
    /\ \A k \in 1..3 : csv[k].Airline = "A"
    /\ << csv[1].DelayMinutes, csv[2].DelayMinutes, csv[3].DelayMinutes >>
          = << Some(10), Null, Some(30) >>
    /\ << data[1].DelayMinutes, data[2].DelayMinutes, data[3].DelayMinutes >>
          = << Some(10), Some(20), Some(30) >>

\* C10 as claimed: every row that is not flagged is in the table
\* handle_inconsistent_entries returns as many times as in its argument.
C10_UnflaggedRowsAsClaimed ==
    (pc = "sort_values" /\ columns) =>
        \A k \in 1..Len(stage_in) :
            ~ Flagged(stage_in[k]) =>
                Count(data, Cols(stage_in[k])) = Count(stage_in, Cols(stage_in[k]))

\* C10 (amended): unless the operator answered 'yes' to the removal question
\* the argument is returned as it is; after a 'yes' the returned table holds
\* exactly one copy of every row that is not flagged and of every flagged row
\* answered 'yes' (rows equal in every column come back as one), and nothing else.
C10_UnflaggedRows ==
    (pc = "sort_values" /\ columns) =>
        IF inc_user_input # Yes THEN data = stage_in
        ELSE /\ \A k \in 1..Len(stage_in) :
                    Count(data, Cols(stage_in[k])) =
                        IF ~ Flagged(stage_in[k]) \/ Cols(stage_in[k]) \in IncKeptCols
                        THEN 1 ELSE 0
             /\ \A k \in 1..Len(data) : Count(stage_in, Cols(data[k])) >= 1

\* two rows equal in every column and not flagged went in with a flagged row;
\* after 'yes' one of the two came back
C10_Witness ==
    /\ pc = "sort_values"
    /\ inc_user_input = Yes
    /\ \E j, k \in 1..Len(stage_in) :
          /\ j # k
          /\ Cols(stage_in[j]) = Cols(stage_in[k])
          /\ ~ Flagged(stage_in[k])
          /\ Count(data, Cols(stage_in[k])) = 1

=============================================================================
